---- MODULE Spec2Model ----
(***************************************************************************)
(* Model of fontforge_x_version_font_generate.py: the FontX run            *)
(* (__init__ -> modify -> install) and the vertical-metric arithmetic of   *)
(* modify().  The arithmetic is modelled as Python computes it: the        *)
(* expression fixed_width * 2 / formal_em * formal_ascent is evaluated in  *)
(* IEEE-754 binary64 (int / int is a correctly rounded true division, the  *)
(* product with an int is a correctly rounded float multiplication) and    *)
(* only then passed to math.ceil.  Significands are kept as sequences of   *)
(* 53 bits, most significant first, so that no intermediate value exceeds  *)
(* the range of the model checker's integers.                              *)
(***************************************************************************)
EXTENDS Integers, Sequences, FiniteSets, TLC

VARIABLES pc, failed, steps, config, source, font, old_name, applied,
          saved, generated, attempted, statuses

vars == <<pc, failed, steps, config, source, font, old_name, applied,
          saved, generated, attempted, statuses>>

(***************************************************************************)
(* Bounds of the model.                                                    *)
(***************************************************************************)
MaxNegEm == 1
MaxEm == 6
MaxAscent == 7
MaxWidth == 4
MaxApply == 3

(***************************************************************************)
(* IEEE-754 binary64 arithmetic on bit sequences.                          *)
(***************************************************************************)
MantBits == 53

Abs(x) == IF x < 0 THEN -x ELSE x

Sgn(x) == IF x < 0 THEN -1 ELSE IF x = 0 THEN 0 ELSE 1

\* Binary digits of n >= 0, most significant first (<<>> for 0).
RECURSIVE ToBits(_)
ToBits(n) == IF n = 0 THEN <<>> ELSE Append(ToBits(n \div 2), n % 2)

\* Value of a bit sequence; the sequence is split in halves so that the
\* evaluation nests only logarithmically deep.
RECURSIVE FromBits(_)
FromBits(bits) ==
    IF bits = <<>> THEN 0
    ELSE IF Len(bits) = 1 THEN bits[1]
    ELSE LET h == Len(bits) \div 2
         IN  FromBits(SubSeq(bits, 1, h)) * 2^(Len(bits) - h)
             + FromBits(SubSeq(bits, h + 1, Len(bits)))

\* Add one unit in the last place; an all-ones input grows by one bit.
IncBits(bits) ==
    IF \A i \in 1..Len(bits) : bits[i] = 1
    THEN <<1>> \o [i \in 1..Len(bits) |-> 0]
    ELSE LET j == CHOOSE i \in 1..Len(bits) :
                      /\ bits[i] = 0
                      /\ \A l \in (i + 1)..Len(bits) : bits[l] = 1
         IN  [i \in 1..Len(bits) |->
                 IF i < j THEN bits[i] ELSE IF i = j THEN 1 ELSE 0]

\* Round-to-nearest-even of a significand already cut to MantBits bits,
\* given whether the discarded tail calls for rounding up; e is the weight
\* (power of two) of the last kept bit.
RoundMant(bits, up, e) ==
    IF ~up THEN [m |-> bits, e |-> e]
    ELSE LET inc == IncBits(bits)
         IN  IF Len(inc) > MantBits
             THEN [m |-> SubSeq(inc, 1, MantBits), e |-> e + 1]
             ELSE [m |-> inc, e |-> e]

\* Largest k >= 0 with d * 2^k <= n (n >= d > 0).
RECURSIVE ShiftDown(_, _)
ShiftDown(n, d) == IF 2 * d <= n THEN 1 + ShiftDown(n, 2 * d) ELSE 0

\* Smallest j >= 0 with n * 2^j >= d (n, d > 0).
RECURSIVE ShiftUp(_, _)
ShiftUp(n, d) == IF n >= d THEN 0 ELSE 1 + ShiftUp(2 * n, d)

\* The w binary digits of 0 <= v < 2^w, most significant first.
FixedBits(v, w) == [i \in 1..w |-> (v \div 2^(w - i)) % 2]

\* One step of long division in base 2^DivLimb: the next digit of r / den
\* (r < den < 2^18) and the remainder left after it.
DivLimb == 13

DivStep(r, den) ==
    [digit |-> (r * 2^DivLimb) \div den, rem |-> (r * 2^DivLimb) % den]

\* The next MantBits - 1 = 4 * DivLimb quotient bits of r / den and the
\* remainder left after them.
LongDiv(r, den) ==
    LET s1 == DivStep(r, den)
        s2 == DivStep(s1.rem, den)
        s3 == DivStep(s2.rem, den)
        s4 == DivStep(s3.rem, den)
    IN  [bits |-> FixedBits(s1.digit, DivLimb) \o FixedBits(s2.digit, DivLimb)
                  \o FixedBits(s3.digit, DivLimb) \o FixedBits(s4.digit, DivLimb),
         rem  |-> s4.rem]

\* n / d for ints n, d > 0: Python's true division, correctly rounded.
FloatDiv(n, d) ==
    LET k   == IF n >= d THEN ShiftDown(n, d) ELSE -ShiftUp(n, d)
        num == IF k < 0 THEN n * 2^(-k) ELSE n
        den == IF k > 0 THEN d * 2^k ELSE d
        ld  == LongDiv(num - den, den)
        up  == \/ 2 * ld.rem > den
               \/ 2 * ld.rem = den /\ ld.bits[MantBits - 1] = 1
    IN  RoundMant(<<1>> \o ld.bits, up, k - (MantBits - 1))

\* Exact product of a MantBits-bit significand by an int 0 < a < 2^15, in
\* base 2^MulLimb from the least significant limb up, each limb's carry
\* feeding the next.
MulLimb == 11

MulStep(bits, lo, hi, a, carry) ==
    FromBits(SubSeq(bits, lo, hi)) * a + carry

MulBits(bits, a) ==
    LET t1 == MulStep(bits, 43, 53, a, 0)
        t2 == MulStep(bits, 32, 42, a, t1 \div 2^MulLimb)
        t3 == MulStep(bits, 21, 31, a, t2 \div 2^MulLimb)
        t4 == MulStep(bits, 10, 20, a, t3 \div 2^MulLimb)
        t5 == MulStep(bits, 1, 9, a, t4 \div 2^MulLimb)
    IN  ToBits(t5) \o FixedBits(t4 % 2^MulLimb, MulLimb)
        \o FixedBits(t3 % 2^MulLimb, MulLimb)
        \o FixedBits(t2 % 2^MulLimb, MulLimb)
        \o FixedBits(t1 % 2^MulLimb, MulLimb)

\* f * a for a float f > 0 and an int a > 0, correctly rounded.
FloatMulInt(f, a) ==
    LET p    == MulBits(f.m, a)
        L    == Len(p)
        kept == SubSeq(p, 1, MantBits)
        up   == /\ L > MantBits
                /\ p[MantBits + 1] = 1
                /\ \/ p[MantBits] = 1
                   \/ \E i \in (MantBits + 2)..L : p[i] = 1
    IN  RoundMant(kept, up, f.e + (L - MantBits))

\* Integer part and presence of a fraction of the float m * 2^e.
IntPart(f) ==
    IF f.e >= 0 THEN FromBits(f.m) * 2^(f.e)
    ELSE IF MantBits + f.e <= 0 THEN 0
    ELSE FromBits(SubSeq(f.m, 1, MantBits + f.e))

HasFraction(f) ==
    /\ f.e < 0
    /\ \E i \in 1..MantBits : i > MantBits + f.e /\ f.m[i] = 1

MathCeilAlwaysUp(sign, f) ==
    IF sign > 0 THEN IntPart(f) + 1 ELSE -IntPart(f)

MathFloor(sign, f) ==
    IF sign > 0 THEN IntPart(f)
    ELSE -(IntPart(f) + (IF HasFraction(f) THEN 1 ELSE 0))

\* math.ceil of the float sign * f.
MathCeil(sign, f) ==
    IF sign > 0 THEN IntPart(f) + (IF HasFraction(f) THEN 1 ELSE 0)
    ELSE -IntPart(f)

\* math.ceil(fixed_width * 2 / formal_em * formal_ascent), formal_em # 0.
NewAscent(fixed_width, formal_em, formal_ascent) ==
    LET n    == fixed_width * 2
        sign == Sgn(n) * Sgn(formal_em) * Sgn(formal_ascent)
    IN  IF sign = 0 THEN 0
        ELSE MathCeil(sign, FloatMulInt(FloatDiv(Abs(n), Abs(formal_em)),
                                        Abs(formal_ascent)))

\* self.font.descent = fixed_width * 2 - self.font.ascent
NewDescentSingleWidth(fixed_width, ascent) == fixed_width - ascent

NewDescent(fixed_width, ascent) == fixed_width * 2 - ascent

\* -1 * self.font.descent
NotNegated(descent) == descent

Negated(descent) == -1 * descent

\* -1 * (self.font.descent - self.PRESET_HARD_CODED_UNDERLINE_THICKNESS)
UnderlinePositionBelow(descent, thickness) == -1 * (descent + thickness)

UnderlinePosition(descent, thickness) == -1 * (descent - thickness)

\* The "calculations" block of modify() on an in-memory font f whose 'x'
\* glyph exists and whose em is not zero.
TransformMetrics(f, thickness) ==
    LET fixed_width   == f.x_width
        formal_ascent == f.ascent
        formal_em     == f.em
        ascent        == NewAscent(fixed_width, formal_em, formal_ascent)
        descent       == NewDescent(fixed_width, ascent)
    IN  [f EXCEPT !.ascent          = ascent,
                  !.descent         = descent,
                  !.os2_winascent   = ascent,
                  !.os2_windescent  = descent,
                  !.os2_typoascent  = ascent,
                  !.os2_typodescent = Negated(descent),
                  !.hhea_ascent     = ascent,
                  !.hhea_descent    = Negated(descent),
                  !.upos            = UnderlinePosition(descent, thickness)]

(***************************************************************************)
(* Names and annotations.  Strings are sequences of characters so that     *)
(* concatenation and containment are computed, not assumed.                *)
(***************************************************************************)
Foo == <<"F", "o", "o">>

FooX == <<"F", "o", "o", "X">>

NameValues == {Foo, FooX}

SourceCopyright == <<"(", "c", ")">>

CommentPrefix ==
    <<"T", "h", "i", "s", " ", "f", "o", "n", "t", " ", "i", "s", " ", "t",
      "h", "e", " ", "X", " ", "v", "e", "r", "s", "i", "o", "n", "(", "E",
      "M", " ", "W", ":", "H", "=", "1", ":", "2", ")", " ", "o", "f", " ">>

Contains(s, sub) ==
    \E i \in 0..(Len(s) - Len(sub)) : SubSeq(s, i + 1, i + Len(sub)) = sub

\* f'This font is the X version(EM W:H=1:2) of {self.old_name}'
CommentWithoutName(name) == CommentPrefix

Comment(name) == CommentPrefix \o name

\* self.font.copyright + f'\n{self.font.comment}'
Copyright(copyright, comment) == copyright \o <<"\n">> \o comment

(***************************************************************************)
(* The inputs of a run: the configuration file and the source font.        *)
(***************************************************************************)
PresetValues == {0, 91}

Configs ==
    [NEW_FONT_NAME : NameValues,
     PRESET_HARD_CODED_UNDERLINE_THICKNESS : PresetValues]

\* <<em, ascent, advance width of 'x'>> of some fonts beyond the ranges.
SampleFonts == {<<1000, 800, 600>>, <<1000, 25, 560>>, <<22, 11, 25>>}

FontShapes ==
    {<<e, a, w>> : e \in (-MaxNegEm)..MaxEm, a \in 1..MaxAscent, w \in 1..MaxWidth}
    \cup SampleFonts

Sources ==
    {[fontname |-> n, copyright |-> SourceCopyright, em |-> t[1],
      ascent |-> t[2], has_x |-> TRUE, x_width |-> t[3]] :
        n \in NameValues, t \in FontShapes}
    \cup
    {[fontname |-> n, copyright |-> SourceCopyright, em |-> e,
      ascent |-> a, has_x |-> FALSE, x_width |-> 0] :
        n \in NameValues, e \in 1..MaxEm, a \in 1..MaxAscent}

\* The in-memory document fontforge.open() returns for a source font.
OpenedFont(src) ==
    [fontname        |-> src.fontname,
     familyname      |-> src.fontname,
     fullname        |-> src.fontname,
     comment         |-> <<>>,
     copyright       |-> src.copyright,
     em              |-> src.em,
     ascent          |-> src.ascent,
     descent         |-> src.em - src.ascent,
     os2_winascent   |-> src.ascent,
     os2_windescent  |-> src.em - src.ascent,
     os2_typoascent  |-> src.ascent,
     os2_typodescent |-> -(src.em - src.ascent),
     hhea_ascent     |-> src.ascent,
     hhea_descent    |-> -(src.em - src.ascent),
     upos            |-> 0,
     has_x           |-> src.has_x,
     x_width         |-> src.x_width]

\* No document is open yet.
NoFont ==
    OpenedFont([fontname |-> <<>>, copyright |-> <<>>, em |-> 0, ascent |-> 0,
                has_x |-> FALSE, x_width |-> 0])

\* The shell commands of install(), in list order.
Commands == <<"mv", "cp", "fc-cache", "echo">>

ExitStatuses == {0, 1}

Metrics(f) ==
    <<f.ascent, f.descent, f.os2_winascent, f.os2_windescent,
      f.os2_typoascent, f.os2_typodescent, f.hhea_ascent, f.hhea_descent,
      f.upos>>

(***************************************************************************)
(* The run.                                                                *)
(***************************************************************************)
Init ==
    /\ pc = "start"
    /\ failed = "none"
    /\ steps = <<>>
    /\ config \in Configs
    /\ source \in Sources
    /\ font = NoFont
    /\ old_name = <<>>
    /\ applied = 0
    /\ saved = FALSE
    /\ generated = FALSE
    /\ attempted = <<>>
    /\ statuses = <<>>

\* An exception propagates out of __init__: nothing catches it.
Raise(step) ==
    /\ pc' = "aborted"
    /\ failed' = step
    /\ UNCHANGED <<steps, config, source, font, old_name, applied, saved,
                   generated, attempted, statuses>>

Complete(step, next) ==
    /\ pc' = next
    /\ steps' = Append(steps, step)
    /\ failed' = failed

\* __init__: open and parse the configuration, read its keys, make the
\* target directory.
LoadConfig ==
    /\ pc = "start"
    /\ \/ /\ Complete("load_config", "configured")
          /\ UNCHANGED <<config, source, font, old_name, applied, saved,
                         generated, attempted, statuses>>
       \/ Raise("load_config")

\* shutil.copy(self.source_file, self.target_source_file)
CopySource ==
    /\ pc = "configured"
    /\ \/ /\ Complete("copy_source", "copied")
          /\ UNCHANGED <<config, source, font, old_name, applied, saved,
                         generated, attempted, statuses>>
       \/ Raise("copy_source")

\* self.font = fontforge.open(...)
OpenFont ==
    /\ pc = "copied"
    /\ \/ /\ Complete("open_font", "opened")
          /\ font' = OpenedFont(source)
          /\ UNCHANGED <<config, source, old_name, applied, saved, generated,
                         attempted, statuses>>
       \/ Raise("open_font")

\* modify(): capture the old name, then overwrite the three name fields.
Rename ==
    /\ pc = "opened"
    /\ Complete("rename", "renamed")
    /\ old_name' = font.fontname
    /\ font' = [font EXCEPT !.fontname   = config.NEW_FONT_NAME,
                            !.familyname = config.NEW_FONT_NAME,
                            !.fullname   = config.NEW_FONT_NAME]
    /\ UNCHANGED <<config, source, applied, saved, generated, attempted,
                   statuses>>

\* modify(): the calculations.  self.font['x'] raises when the glyph is
\* missing, the true division raises ZeroDivisionError when em is 0.
Transform ==
    /\ pc = "renamed"
    /\ IF ~font.has_x THEN Raise("transform")
       ELSE IF font.em = 0 THEN Raise("transform")
       ELSE /\ Complete("transform", "transformed")
            /\ font' = TransformMetrics(
                           font, config.PRESET_HARD_CODED_UNDERLINE_THICKNESS)
            /\ applied' = applied + 1
            /\ UNCHANGED <<config, source, old_name, saved, generated,
                           attempted, statuses>>

\* modify(): comment and copyright.
Annotate ==
    /\ pc = "transformed"
    /\ Complete("annotate", "annotated")
    /\ font' = [font EXCEPT
                   !.comment   = Comment(old_name),
                   !.copyright = Copyright(font.copyright, Comment(old_name))]
    /\ UNCHANGED <<config, source, old_name, applied, saved, generated,
                   attempted, statuses>>

\* A variant of Save that goes on to the next step after a failed save.
SaveIgnoringFailure ==
    /\ pc = "annotated"
    /\ \/ /\ Complete("save", "saved")
          /\ saved' = TRUE
       \/ /\ pc' = "saved"
          /\ failed' = "save"
          /\ UNCHANGED <<steps, saved>>
    /\ UNCHANGED <<config, source, font, old_name, applied, generated,
                   attempted, statuses>>

\* self.font.save()
Save ==
    /\ pc = "annotated"
    /\ \/ /\ Complete("save", "saved")
          /\ saved' = TRUE
          /\ UNCHANGED <<config, source, font, old_name, applied, generated,
                         attempted, statuses>>
       \/ Raise("save")

\* self.font.generate(...)
Generate ==
    /\ pc = "saved"
    /\ \/ /\ Complete("generate", "generated")
          /\ generated' = TRUE
          /\ UNCHANGED <<config, source, font, old_name, applied, saved,
                         attempted, statuses>>
       \/ Raise("generate")

\* install(): os.chdir(self.target_source_file.parent)
Chdir ==
    /\ pc = "generated"
    /\ \/ /\ Complete("chdir", "installing")
          /\ UNCHANGED <<config, source, font, old_name, applied, saved,
                         generated, attempted, statuses>>
       \/ Raise("install")

\* A variant of RunCommand that stops the run at a failed command.
RunCommandChecked ==
    /\ pc = "installing"
    /\ \E st \in ExitStatuses :
          /\ attempted' = Append(attempted, Commands[Len(attempted) + 1])
          /\ statuses' = Append(statuses, st)
          /\ IF st # 0
             THEN pc' = "aborted" /\ failed' = "install" /\ steps' = steps
             ELSE IF Len(attempted) + 1 = Len(Commands)
                  THEN Complete("install", "done")
                  ELSE UNCHANGED <<pc, steps, failed>>
    /\ UNCHANGED <<config, source, font, old_name, applied, saved, generated>>

\* install(): one iteration of "for cmd in commands: os.system(cmd)"; the
\* exit status os.system returns is dropped.
RunCommand ==
    /\ pc = "installing"
    /\ \E st \in ExitStatuses :
          /\ attempted' = Append(attempted, Commands[Len(attempted) + 1])
          /\ statuses' = Append(statuses, st)
    /\ IF Len(attempted) + 1 = Len(Commands)
       THEN Complete("install", "done")
       ELSE UNCHANGED <<pc, steps, failed>>
    /\ UNCHANGED <<config, source, font, old_name, applied, saved, generated>>

Next ==
    \/ LoadConfig
    \/ CopySource
    \/ OpenFont
    \/ Rename
    \/ Transform
    \/ Annotate
    \/ Save
    \/ Generate
    \/ Chdir
    \/ RunCommand

Spec == Init /\ [][Next]_vars

(***************************************************************************)
(* The metric transformation applied again and again to its own output:    *)
(* each further application reads em as the ascent plus the descent the    *)
(* previous one wrote.                                                     *)
(***************************************************************************)
InitReapply ==
    /\ pc = "reapply"
    /\ failed = "none"
    /\ steps = <<>>
    /\ config \in Configs
    /\ source \in {src \in Sources : src.has_x /\ src.em # 0}
    /\ font = OpenedFont(source)
    /\ old_name = <<>>
    /\ applied = 0
    /\ saved = FALSE
    /\ generated = FALSE
    /\ attempted = <<>>
    /\ statuses = <<>>

Reapply ==
    /\ pc = "reapply"
    /\ applied < MaxApply
    /\ font' = TransformMetrics(
                   IF applied = 0 THEN font
                   ELSE [font EXCEPT !.em = font.ascent + font.descent],
                   config.PRESET_HARD_CODED_UNDERLINE_THICKNESS)
    /\ applied' = applied + 1
    /\ UNCHANGED <<pc, failed, steps, config, source, old_name, saved,
                   generated, attempted, statuses>>

NextReapply == Reapply

SpecReapply == InitReapply /\ [][NextReapply]_vars

(***************************************************************************)
(* Properties.                                                             *)
(***************************************************************************)
Done(step) == \E i \in 1..Len(steps) : steps[i] = step

\* The inputs modify() read: the source document is never written.
ValidShape == source.x_width > 0 /\ 0 < source.ascent /\ source.ascent < source.em

\* C1: after the metric transformation the new ascent plus the new descent
\* is exactly twice the fixed width, whatever the rounding of the ascent
\* produced.
C1_AscentPlusDescent ==
    applied >= 1 => font.ascent + font.descent = 2 * source.x_width

\* C1 witness: a transformed font with 0 < oldAscent < em whose scaled
\* ascent was not an integer before rounding.
C1_Witness ==
    /\ applied = 1
    /\ ValidShape
    /\ (2 * source.x_width * source.ascent) % source.em # 0
    /\ font.descent > 0

\* C2: for positive em, oldAscent and fixedWidth the new ascent is the least
\* integer n with n * em >= 2 * fixedWidth * oldAscent, i.e. the ceiling of
\* the exact quotient.
C2_AscentIsExactCeiling ==
    (applied = 1 /\ source.em > 0 /\ source.ascent > 0 /\ source.x_width > 0)
    => /\ font.ascent * source.em >= 2 * source.x_width * source.ascent
       /\ (font.ascent - 1) * source.em < 2 * source.x_width * source.ascent

\* C3: after the transformation the OS/2 and hhea ascents equal the new
\* ascent, the OS/2 win descent equals the new descent, and the OS/2 typo
\* and hhea descents equal its negation.
C3_MetricPairsAgree ==
    applied >= 1 =>
        /\ font.os2_winascent = font.ascent
        /\ font.os2_typoascent = font.ascent
        /\ font.hhea_ascent = font.ascent
        /\ font.os2_windescent = font.descent
        /\ font.os2_typodescent = -font.descent
        /\ font.hhea_descent = -font.descent

\* C3 witness: a transformed font with a non-zero descent, whose metric
\* fields all differ from the ones the source font carried.
C3_Witness ==
    /\ applied = 1
    /\ ValidShape
    /\ font.descent > 0
    /\ font.ascent # source.ascent
    /\ font.descent # source.em - source.ascent
    /\ font.os2_typodescent < 0

\* C4: after the transformation the underline position is minus (the new
\* descent minus the configured underline thickness preset).
C4_UnderlinePosition ==
    applied >= 1 =>
        font.upos = -(font.descent
                      - config.PRESET_HARD_CODED_UNDERLINE_THICKNESS)

\* C4 witness: new descent 240 (source descent 200) and preset 91 give -149.
C4_Witness ==
    /\ applied = 1
    /\ source.em - source.ascent = 200
    /\ font.descent = 240
    /\ config.PRESET_HARD_CODED_UNDERLINE_THICKNESS = 91
    /\ font.upos = -149

\* C5: a run whose source font has a zero or negative em never saves,
\* compiles or installs the font.
C5_NonPositiveEmRejected ==
    source.em <= 0 => /\ ~saved
                      /\ ~generated
                      /\ attempted = <<>>
                      /\ pc # "done"

\* C6 as stated: once the comment is written it contains both the new name
\* and the old name.
C6_CommentHasBothNames ==
    Done("annotate") => /\ Contains(font.comment, config.NEW_FONT_NAME)
                        /\ Contains(font.comment, source.fontname)

\* C6 as amended: once the comment is written it is the provenance note
\* ending in the old name, the old name being the name the source font had
\* before any name field was overwritten; the new name is in the three name
\* fields.
C6_CommentNamesOldFont ==
    Done("annotate") => /\ old_name = source.fontname
                        /\ Contains(font.comment, source.fontname)
                        /\ font.comment = CommentPrefix \o source.fontname
                        /\ font.fontname = config.NEW_FONT_NAME
                        /\ font.familyname = config.NEW_FONT_NAME
                        /\ font.fullname = config.NEW_FONT_NAME

\* C6 witness: Foo renamed to FooX; the comment names Foo and not FooX.
C6_Witness ==
    /\ Done("annotate")
    /\ source.fontname = Foo
    /\ config.NEW_FONT_NAME = FooX
    /\ Contains(font.comment, Foo)
    /\ ~Contains(font.comment, FooX)

\* The steps of a run in the order the code takes them.
PipelineOrder ==
    <<"load_config", "copy_source", "open_font", "rename", "transform",
      "annotate", "save", "generate", "chdir", "install">>

\* C7: a failed step aborts the run: no step is taken from a state in which
\* a step has failed, the steps completed are a prefix of the pipeline,
\* the font is compiled only after a successful save and install commands
\* run only after a successful compile.
C7_FailureAborts ==
    /\ [](failed # "none" => pc = "aborted")
    /\ [](steps = SubSeq(PipelineOrder, 1, Len(steps)))
    /\ [](generated => saved /\ Done("save"))
    /\ [](attempted # <<>> => generated /\ Done("generate"))
    /\ [][failed = "none"]_vars

\* C7 witness: the save failed after the metrics were transformed; nothing
\* was compiled or installed.
C7_Witness ==
    /\ failed = "save"
    /\ pc = "aborted"
    /\ Done("transform")
    /\ ~generated
    /\ attempted = <<>>

\* C8: once the install commands start, they are attempted once each in
\* list order whatever their exit statuses: every step of the installer
\* attempts the next command of the list and stays in the installer, the
\* run never aborts after a command was attempted, and a finished run has
\* attempted exactly the four commands.
C8_InstallerFireAndForget ==
    /\ [](attempted = SubSeq(Commands, 1, Len(attempted)))
    /\ [](Len(statuses) = Len(attempted))
    /\ [](attempted # <<>> => pc \in {"installing", "done"})
    /\ [](pc = "installing" => Len(attempted) < Len(Commands))
    /\ [](pc = "done" => attempted = Commands)
    /\ [][pc = "installing" =>
            /\ attempted' = Append(attempted, Commands[Len(attempted) + 1])
            /\ pc' \in {"installing", "done"}]_vars

\* C8 witness: the run finished although the first and the third command
\* failed.
C8_Witness ==
    /\ pc = "done"
    /\ attempted = Commands
    /\ statuses = <<1, 0, 1, 0>>

\* C9: with fixedWidth > 0 and 0 < oldAscent < em the new ascent is in
\* 1..2*fixedWidth, so the descent and the win descent are non-negative and
\* the typo and hhea descents non-positive; and some font with
\* oldAscent > em gets a negative descent.
C9_DescentSign ==
    /\ (applied = 1 /\ ValidShape) =>
           /\ 0 < font.ascent
           /\ font.ascent <= 2 * source.x_width
           /\ font.descent >= 0
           /\ font.os2_windescent >= 0
           /\ font.os2_typodescent <= 0
           /\ font.hhea_descent <= 0
    /\ \E s \in Sources :
           /\ s.has_x /\ s.em > 0 /\ s.ascent > s.em
           /\ TransformMetrics(OpenedFont(s), 0).descent < 0

\* C9 witness: a valid shape whose ascent had to be rounded up from a value
\* below one.
C9_Witness ==
    /\ applied = 1
    /\ ValidShape
    /\ 2 * source.x_width * source.ascent < source.em
    /\ font.ascent = 1

\* C10: applying the transformation again, with em read as the ascent plus
\* the descent of the previous application, changes none of the metric
\* fields, at any number of applications.
C10_ReapplyIsFixedPoint ==
    [][applied >= 1 => Metrics(font') = Metrics(font)]_vars

\* C10 witness: a font transformed for the third time whose first
\* transformation changed its metrics.
C10_Witness ==
    /\ pc = "reapply"
    /\ applied >= 3
    /\ ValidShape
    /\ Metrics(font) # Metrics(OpenedFont(source))
    /\ font.em = 2 * source.x_width

====
